---- MODULE Spec2Model ----
(***************************************************************************)
(* A model of combotsha / combotcha: an IRC bot announcing new git commits. *)
(*                                                                         *)
(*   src/combotcha.py            Repository, IRCSession, the main loop      *)
(*   src/combotsha/combotsha.py  _Repository, _IrcBot, _main                *)
(*                                                                         *)
(* The module holds several specifications over one set of variables; each *)
(* specification drives one part of the program and leaves the variables   *)
(* of the other parts at their initial values.                             *)
(*                                                                         *)
(*   SpecFraming   IRCSession._receive / _pop_message over a chunked socket *)
(*   SpecSession   IRCSession.sign_in / run and the _IrcBot callbacks       *)
(*   SpecSend      concurrent callers of IRCSession._send_command           *)
(*   SpecWatcher   _Repository / Repository .get_new_commits                *)
(***************************************************************************)
EXTENDS Integers, Sequences, FiniteSets, TLC

VARIABLES
    impl,              \* which program runs: "combotcha" or "combotsha"
    \* ---- IRCSession reception (combotcha.py)
    msgs,              \* the messages the server sends, in order (text)
    wire,              \* encoded bytes the socket has not delivered yet
    reception_buffer,  \* IRCSession._reception_buffer
    received,          \* the values successive _receive calls returned
    rx_raised,         \* _receive raised UnicodeDecodeError
    \* ---- handshake and dispatch
    phase,             \* where the connection thread is
    fed,               \* the lines handed to sign_in / run / the bot so far
    sent,              \* the commands written to the server, in order
    nickname,          \* IRCSession._nickname / connection.real_nickname
    connection,        \* _IrcBot._connection: "None" or "conn"
    \* ---- concurrent senders
    pc,                \* per thread: position inside _send_command
    payload,           \* per thread: the local variable `payload`
    stream,            \* the bytes the socket accepted, in order
    \* ---- repository watcher
    upstream,          \* the remote branch: commits oldest first
    clone,             \* origin/master of the local clone, oldest first
    marker,            \* _last_seen_commit / _last_seen_commit_sha
    last_seen_commit_sha, \* the constructor argument (NoneSha when absent)
    baseline,          \* the branch history when the watcher was created
    ret,               \* outcome of the last get_new_commits call
    alive,             \* the polling thread has not died of an exception
    reported,          \* every batch get_new_commits returned, concatenated
    \* ---- disconnecting
    sock_open,         \* the socket to the server has not been closed
    quit_calls,        \* calls of quit / disconnect_from_server so far
    \* ---- orchestrator (the main loop)
    opc,               \* where the main thread is
    cur,               \* index of the repository the pass is at
    todo,              \* new_commits still to announce, in sending order
    batch,             \* the last poll: the repository and what it returned
    log                \* what the pass wrote and slept since its last poll

vars == <<impl, msgs, wire, reception_buffer, received, rx_raised,
          phase, fed, sent, nickname, connection,
          pc, payload, stream,
          upstream, clone, marker, last_seen_commit_sha, baseline, ret, alive,
          reported, sock_open, quit_calls, opc, cur, todo, batch, log>>

framingVars == <<msgs, wire, reception_buffer, received, rx_raised>>
sessionVars == <<phase, fed, sent, nickname, connection>>
sendVars    == <<pc, payload, stream>>
watcherVars == <<upstream, clone, marker, last_seen_commit_sha, baseline, ret, alive,
                reported>>
linkVars    == <<sock_open, quit_calls>>
orchVars    == <<opc, cur, todo, batch, log>>

(***************************************************************************)
(* Bounds of the model.                                                    *)
(***************************************************************************)
MaxMsgs == 2
MaxMsgLen == 1
MaxLines == 3
MaxStream == 6
MaxCommits == 3
HashLen == 2
MaxSent == 3
MaxQuitCalls == 2
MaxBatch == 6

(***************************************************************************)
(* Generic helpers.                                                        *)
(***************************************************************************)
Range(s) == {s[i] : i \in 1..Len(s)}

Min(a, b) == IF a < b THEN a ELSE b

SeqsUpTo(S, n) == UNION {[1..k -> S] : k \in 0..n}

RECURSIVE Reverse(_)
Reverse(s) == IF s = <<>> THEN <<>> ELSE Append(Reverse(Tail(s)), Head(s))

IsPrefix(p, s) == Len(p) <= Len(s) /\ SubSeq(s, 1, Len(p)) = p

(***************************************************************************)
(* Framing: text, bytes and the reception buffer.                          *)
(* Text is a sequence of code points, the wire a sequence of bytes.        *)
(***************************************************************************)
CR == 13
LF == 10
RecvSize == 512
RateLimitThreshold == 5

\* The code points messages are made of: U+00E9 (two bytes in UTF-8),
\* carriage return and line feed (one byte each).
Chars == {233, CR, LF}

\* str.encode('utf-8') of one code point below U+0800.
EncodeChar(c) == IF c < 128 THEN <<c>> ELSE <<192 + (c \div 64), 128 + (c % 64)>>

RECURSIVE Encode(_)
Encode(text) == IF text = <<>> THEN <<>>
                ELSE EncodeChar(Head(text)) \o Encode(Tail(text))

\* bytes.decode('utf-8'): ok is FALSE where Python raises UnicodeDecodeError.
RECURSIVE Decode(_)
Decode(bytes) ==
    IF bytes = <<>> THEN [ok |-> TRUE, text |-> <<>>]
    ELSE IF bytes[1] < 128
    THEN LET rest == Decode(Tail(bytes))
         IN  [ok |-> rest.ok, text |-> <<bytes[1]>> \o rest.text]
    ELSE IF bytes[1] \in 194..223 /\ Len(bytes) >= 2 /\ bytes[2] \in 128..191
    THEN LET rest == Decode(SubSeq(bytes, 3, Len(bytes)))
         IN  [ok |-> rest.ok,
              text |-> <<(bytes[1] - 192) * 64 + (bytes[2] - 128)>> \o rest.text]
    ELSE [ok |-> FALSE, text |-> <<>>]

\* '{}\r\n' framing of one message, as the server writes it.
Frame(text) == Encode(text) \o <<CR, LF>>

RECURSIVE FrameAll(_)
FrameAll(ms) == IF ms = <<>> THEN <<>> ELSE Frame(Head(ms)) \o FrameAll(Tail(ms))

HasCRLF(s) == \E i \in 1..(Len(s) - 1) : s[i] = CR /\ s[i + 1] = LF

\* Python's `for i in range(1, len(buf))` with buf[i-1:i+1] == b'\r\n':
\* the 1-based positions j, j+1 of the first delimiter (0 when there is none).
BoundaryAt(buf) ==
    LET hits == {j \in 1..(Len(buf) - 1) : buf[j] = CR /\ buf[j + 1] = LF}
    IN  IF hits = {} THEN 0 ELSE CHOOSE j \in hits : \A k \in hits : j <= k

\* A _pop_message that deletes buf[:i] and so leaves the LF of the delimiter.
PopMessage_KeepsLF(buf) ==
    LET j == BoundaryAt(buf)
    IN  IF j = 0
        THEN [found |-> FALSE, bytes |-> <<>>, rest |-> buf]
        ELSE [found |-> TRUE,
              bytes |-> SubSeq(buf, 1, j - 1),
              rest  |-> SubSeq(buf, j + 1, Len(buf))]

\* IRCSession._pop_message: found is FALSE for Python's None.
PopMessage(buf) ==
    LET j == BoundaryAt(buf)
    IN  IF j = 0
        THEN [found |-> FALSE, bytes |-> <<>>, rest |-> buf]
        ELSE [found |-> TRUE,
              bytes |-> SubSeq(buf, 1, j - 1),
              rest  |-> SubSeq(buf, j + 2, Len(buf))]

Messages == {m \in SeqsUpTo(Chars, MaxMsgLen) : ~HasCRLF(m)}

\* _receive, the iteration that returns: _pop_message finds a frame.
ReceiveReturn ==
    /\ ~rx_raised
    /\ LET p == PopMessage(reception_buffer)
           d == Decode(p.bytes)
       IN  /\ p.found
           /\ IF d.ok
              THEN /\ received' = Append(received, d.text)
                   /\ reception_buffer' = p.rest
                   /\ rx_raised' = FALSE
              ELSE /\ rx_raised' = TRUE
                   /\ UNCHANGED <<received, reception_buffer>>
    /\ UNCHANGED <<linkVars, orchVars>>
    /\ UNCHANGED <<impl, msgs, wire, sessionVars, sendVars, watcherVars>>

\* _receive, an iteration that reads: _pop_message returned None and
\* sock.recv(512) delivers the next k bytes of the stream.
ReceiveRecv(k) ==
    /\ ~rx_raised
    /\ ~PopMessage(reception_buffer).found
    /\ k \in 1..Min(RecvSize, Len(wire))
    /\ reception_buffer' = reception_buffer \o SubSeq(wire, 1, k)
    /\ wire' = SubSeq(wire, k + 1, Len(wire))
    /\ UNCHANGED <<linkVars, orchVars>>
    /\ UNCHANGED <<impl, msgs, received, rx_raised, sessionVars, sendVars, watcherVars>>

InitSessionIdle ==
    /\ phase = "idle" /\ fed = <<>> /\ sent = <<>>
    /\ nickname = <<>> /\ connection = "None"

InitSendIdle ==
    /\ pc = <<>> /\ payload = <<>> /\ stream = <<>>

InitWatcherIdle ==
    /\ upstream = <<>> /\ clone = <<>> /\ marker = <<>>
    /\ last_seen_commit_sha = <<>> /\ baseline = <<>>
    /\ ret = <<>> /\ alive = FALSE /\ reported = <<>>

InitOrchIdle ==
    /\ sock_open = TRUE /\ quit_calls = 0
    /\ opc = "idle" /\ cur = 0 /\ todo = <<>> /\ log = <<>>
    /\ batch = [repo |-> "", commits |-> <<>>]

InitFramingIdle ==
    /\ msgs = <<>> /\ wire = <<>> /\ reception_buffer = <<>>
    /\ received = <<>> /\ rx_raised = FALSE

InitFraming ==
    /\ impl = "combotcha"
    /\ msgs \in SeqsUpTo(Messages, MaxMsgs)
    /\ wire = FrameAll(msgs)
    /\ reception_buffer = <<>>
    /\ received = <<>>
    /\ rx_raised = FALSE
    /\ InitSessionIdle /\ InitSendIdle /\ InitWatcherIdle /\ InitOrchIdle

NextFraming ==
    \/ ReceiveReturn
    \/ \E k \in 1..Min(RecvSize, Len(wire)) : ReceiveRecv(k)

SpecFraming == InitFraming /\ [][NextFraming]_vars

(***************************************************************************)
(* Lines and commands.  A line of text is a sequence of tokens; the line   *)
(* is their concatenation.  Only the token " " holds a space at its edge,  *)
(* only the three-digit tokens hold digits and only ":" holds a colon.     *)
(***************************************************************************)
Channel == <<"#chan">>
ConfiguredNick == <<"bot">>
CRLF == "\r\n"

NumericTokens == {"001", "366", "376", "433"}

\* int(m[1]) for a three-digit token.
IntOf(tok) == CASE tok = "001" -> 1
                [] tok = "366" -> 366
                [] tok = "376" -> 376
                [] tok = "433" -> 433

\* The lines the server sends in this model.
IdentLine      == <<"NOTICE", " ", ":", "No Ident response">>
MotdEndLine    == <<":", "srv", " ", "376", " ", "bot", " ", ":", "End">>
NamesEndLine   == <<":", "srv", " ", "366", " ", "bot", " ", ":", "End">>
NickInUseLine  == <<":", "srv", " ", "433", " ", "*", " ", ":", "inuse">>
WelcomeLine    == <<":", "srv", " ", "001", " ", "bot", " ", ":", "Hi">>
PingLine       == <<"PING", " ", ":", "tok">>
PingPrefixed   == <<":", "srv", " ", "PING", " ", ":", "tok">>
PingNoColon    == <<"PING", " ", "tok">>
PingColonToken == <<"PING", " ", ":", "t", ":", "k">>
LeadingCode    == <<"376", " ", "x">>
TwoCodes       == <<":", "srv", " ", "366", " ", "376", " ", "x">>
IdentWith433   == <<":", "srv", " ", "433", " ", ":", "No Ident response">>

InputLines == {IdentLine, MotdEndLine, NamesEndLine, NickInUseLine, WelcomeLine,
               PingLine, PingPrefixed, PingNoColon, PingColonToken,
               LeadingCode, TwoCodes, IdentWith433}

\* `sub in payload` for a one-token substring.
Contains(line, tok) == \E i \in 1..Len(line) : line[i] = tok

\* IRCSession._get_payload_status: re '^.* ([0-9][0-9][0-9]) .*' matches a
\* three-digit run between two spaces; the leading `.*` is greedy, so group 1
\* is the last such run.  0 stands for None (no match, or the swallowed error).
GetPayloadStatus(line) ==
    LET hits == {i \in 2..(Len(line) - 1) :
                    /\ line[i - 1] = " "
                    /\ line[i] \in NumericTokens
                    /\ line[i + 1] = " "}
    IN  IF hits = {} THEN 0
        ELSE IntOf(line[CHOOSE i \in hits : \A k \in hits : k <= i])

\* IRCSession._send_command: the text '{} {}\r\n'.format(cmd_name, cmd_payload).
SendCommand(cmd_name, cmd_payload) == cmd_name \o <<" ">> \o cmd_payload \o <<CRLF>>

\* An _identify that forgets the USER registration.
Identify_NickOnly(nick) == <<SendCommand(<<"NICK">>, nick)>>

\* IRCSession._identify: the commands it sends, in order.
Identify(nick) ==
    << SendCommand(<<"NICK">>, nick),
       SendCommand(<<"USER">>, nick \o <<" ", "*", " ", "*", " ", ":">> \o nick) >>

\* IRCSession._join_channel.
JoinChannel(channel) == <<SendCommand(<<"JOIN">>, channel)>>

\* A quit that says nothing before leaving.
Quit_Silent == <<>>

\* IRCSession.quit.
Quit == <<SendCommand(<<"QUIT">>, <<":", "Bye-bye-bye-bye-bye-bye-bye!!">>)>>

\* The texts the main loop announces.
ChannelTexts == {<<"m1">>}

\* IRCSession.message_channel: the arguments it hands to _send_command.
MessageChannel(msg) == SendCommand(<<"PRIVMSG", " ">> \o Channel, <<":">> \o msg)

\* payload.split(":"): the positions of the colons.
ColonsOf(line) == {i \in 1..Len(line) : line[i] = ":"}

\* payload.split(":")[1]: the text between the first colon and the second
\* (or the end of the line).  Only defined when the line has a colon.
SplitColon1(line) ==
    LET cs    == ColonsOf(line)
        first == CHOOSE i \in cs : \A k \in cs : i <= k
        later == {i \in cs : i > first}
        stop  == IF later = {} THEN Len(line) + 1
                 ELSE CHOOSE i \in later : \A k \in later : i <= k
    IN  SubSeq(line, first + 1, stop - 1)

\* IRCSession._pong, when split(":")[1] exists.
Pong(line) == <<SendCommand(<<"PONG">>, <<":">> \o SplitColon1(line))>>

\* One iteration of the loop of IRCSession.sign_in on the next line.
SignInLine(line) ==
    /\ impl = "combotcha"
    /\ phase = "sign_in"
    /\ Len(fed) < MaxLines
    /\ fed' = Append(fed, line)
    /\ LET status == GetPayloadStatus(line)
       IN  IF Contains(line, "No Ident response")
           THEN /\ sent' = sent \o Identify(nickname)
                /\ phase' = phase
           ELSE IF status = 433
           THEN /\ sent' = sent \o Quit
                /\ phase' = "NicknameInUse"
           ELSE IF status = 376
           THEN /\ sent' = sent \o JoinChannel(Channel)
                /\ phase' = phase
           ELSE IF status = 366
           THEN /\ sent' = sent
                /\ phase' = "Ready"
           ELSE /\ sent' = sent
                /\ phase' = phase
    \* session.quit() of the 433 branch is a call of quit; the exception
    \* raised next is caught nowhere and ends the process, socket included.
    /\ quit_calls' = IF phase' = "NicknameInUse" THEN quit_calls + 1 ELSE quit_calls
    /\ sock_open' = (phase' # "NicknameInUse")
    /\ UNCHANGED orchVars
    /\ UNCHANGED <<impl, nickname, connection, framingVars, sendVars, watcherVars>>

\* One iteration of IRCSession.run: _handle_message on the next line.
\* An IndexError in _pong is caught nowhere and ends the thread.
RunLine(line) ==
    /\ impl = "combotcha"
    /\ phase = "Ready"
    /\ Len(fed) < MaxLines
    /\ fed' = Append(fed, line)
    /\ IF Contains(line, "PING")
       THEN IF ColonsOf(line) = {}
            THEN /\ phase' = "IndexError"
                 /\ sent' = sent
            ELSE /\ sent' = sent \o Pong(line)
                 /\ phase' = phase
       ELSE /\ sent' = sent
            /\ phase' = phase
    /\ UNCHANGED <<linkVars, orchVars>>
    /\ UNCHANGED <<impl, nickname, connection, framingVars, sendVars, watcherVars>>

\* _IrcBot.on_nicknameinuse: connection.nick(f'{connection.get_nickname()}_').
BotOnNicknameInUse ==
    /\ impl = "combotsha"
    /\ phase = "start"
    /\ sock_open
    /\ Len(fed) < MaxLines
    /\ fed' = Append(fed, NickInUseLine)
    /\ sent' = Append(sent, SendCommand(<<"NICK">>, nickname \o <<"_">>))
    /\ UNCHANGED <<linkVars, orchVars>>
    /\ UNCHANGED <<impl, phase, nickname, connection, framingVars, sendVars, watcherVars>>

\* _IrcBot.on_welcome: keeps the connection and joins the channel.
BotOnWelcome ==
    /\ impl = "combotsha"
    /\ phase = "start"
    /\ sock_open
    /\ Len(fed) < MaxLines
    /\ fed' = Append(fed, WelcomeLine)
    /\ connection' = "conn"
    /\ sent' = Append(sent, SendCommand(<<"JOIN">>, Channel))
    /\ UNCHANGED <<linkVars, orchVars>>
    /\ UNCHANGED <<impl, phase, nickname, framingVars, sendVars, watcherVars>>

\* The server's end-of-names reply (366) reaching the bot: _IrcBot defines
\* no handler for it, the event changes nothing.
BotOnEndOfNames ==
    /\ impl = "combotsha"
    /\ phase = "start"
    /\ sock_open
    /\ connection = "conn"
    /\ Len(fed) < MaxLines
    /\ fed' = Append(fed, NamesEndLine)
    /\ UNCHANGED <<linkVars, orchVars>>
    /\ UNCHANGED <<impl, phase, sent, nickname, connection, framingVars, sendVars,
                   watcherVars>>

\* The main thread is still in its loop: no SIGINT handler has run
\* sys.exit(0) in it.
MainRunning == opc # "exited"

\* What Connection.privmsg writes: 'PRIVMSG <target> :<text>'.
Privmsg(target, text) == SendCommand(<<"PRIVMSG", " ">> \o target, <<":">> \o text)

\* _IrcBot.msg_channel: what it writes.  It returns at once while
\* _connection is None, else connection.privmsg(channel, msg).
MsgChannel(conn, msg) ==
    IF conn = "None" THEN <<>> ELSE <<Privmsg(Channel, msg)>>

\* _IrcBot.msg_channel, called by the main thread.
BotMsgChannel(msg) ==
    /\ impl = "combotsha"
    /\ MainRunning
    /\ Len(sent) < MaxSent
    /\ sent' = sent \o MsgChannel(connection, msg)
    /\ UNCHANGED <<linkVars, orchVars>>
    /\ UNCHANGED <<impl, phase, fed, nickname, connection, framingVars, sendVars,
                   watcherVars>>

\* What Connection.disconnect writes before it closes the socket.
BotFarewell == <<"QUIT", CRLF>>

\* sigint_handler of _main with its sys.exit(0): _IrcBot.disconnect_from_server
\* returns at once while _connection is None, else connection.disconnect(),
\* which says QUIT and closes the socket unless it is closed already.
BotDisconnectFromServer ==
    /\ impl = "combotsha"
    /\ quit_calls < MaxQuitCalls
    /\ quit_calls' = quit_calls + 1
    /\ IF connection = "None" \/ ~sock_open
       THEN UNCHANGED <<sent, sock_open>>
       ELSE /\ sent' = Append(sent, BotFarewell)
            /\ sock_open' = FALSE
    /\ opc' = "exited"
    /\ UNCHANGED <<cur, todo, batch, log>>
    /\ UNCHANGED <<impl, phase, fed, nickname, connection, framingVars, sendVars,
                   watcherVars>>

\* IRCSession.message_channel, called by the main loop, which starts once
\* sign_in has returned.
SessionMessageChannel(msg) ==
    /\ impl = "combotcha"
    /\ phase \in {"Ready", "IndexError"}
    /\ MainRunning
    /\ Len(sent) < MaxSent
    /\ sent' = Append(sent, MessageChannel(msg))
    /\ UNCHANGED <<linkVars, orchVars>>
    /\ UNCHANGED <<impl, phase, fed, nickname, connection, framingVars, sendVars,
                   watcherVars>>

\* sigint_handler of combotcha.py with its sys.exit(0): session.quit(), which
\* sends QUIT whenever it is called and leaves the socket as it is.  The
\* handler is installed once sign_in has returned.
SessionQuit ==
    /\ impl = "combotcha"
    /\ phase \in {"Ready", "IndexError"}
    /\ quit_calls < MaxQuitCalls
    /\ quit_calls' = quit_calls + 1
    /\ sent' = sent \o Quit
    /\ opc' = "exited"
    /\ UNCHANGED <<sock_open, cur, todo, batch, log>>
    /\ UNCHANGED <<impl, phase, fed, nickname, connection, framingVars, sendVars,
                   watcherVars>>

InitSession ==
    /\ impl \in {"combotcha", "combotsha"}
    /\ phase = IF impl = "combotcha" THEN "sign_in" ELSE "start"
    /\ fed = <<>>
    /\ sent = <<>>
    /\ nickname = ConfiguredNick
    /\ connection = "None"
    /\ InitFramingIdle /\ InitSendIdle /\ InitWatcherIdle /\ InitOrchIdle

NextSession ==
    \/ \E line \in InputLines : SignInLine(line)
    \/ \E line \in InputLines : RunLine(line)
    \/ BotOnNicknameInUse
    \/ BotOnWelcome
    \/ BotOnEndOfNames
    \/ \E msg \in ChannelTexts : BotMsgChannel(msg)
    \/ BotDisconnectFromServer
    \/ \E msg \in ChannelTexts : SessionMessageChannel(msg)
    \/ SessionQuit

SpecSession == InitSession /\ [][NextSession]_vars

(***************************************************************************)
(* Concurrent senders (combotcha.py).  The main thread sends channel       *)
(* messages from the poll loop while the thread running session.run        *)
(* answers PING; both go through _send_command, which takes no lock.       *)
(***************************************************************************)
Threads == {"main", "irc"}

\* What each thread may ask _send_command to write.
Outbound(t) == IF t = "main"
               THEN {MessageChannel(msg) : msg \in ChannelTexts}
               ELSE {Pong(line)[1] : line \in {PingLine}}

\* _send_command, line 61: the thread formats and encodes its payload.
EnterSend(t) ==
    /\ pc[t] = "idle"
    /\ Len(stream) < MaxStream
    /\ \E bytes \in Outbound(t) : payload' = [payload EXCEPT ![t] = bytes]
    /\ pc' = [pc EXCEPT ![t] = "send"]
    /\ UNCHANGED <<linkVars, orchVars>>
    /\ UNCHANGED <<impl, stream, framingVars, sessionVars, watcherVars>>

\* _send_command, line 62: sock.send accepts the first k bytes and returns k;
\* the caller drops the return value, so the rest is never written.
SockSend(t, k) ==
    /\ pc[t] = "send"
    /\ k \in 1..Len(payload[t])
    /\ stream' = stream \o SubSeq(payload[t], 1, k)
    /\ pc' = [pc EXCEPT ![t] = "idle"]
    /\ payload' = [payload EXCEPT ![t] = <<>>]
    /\ UNCHANGED <<linkVars, orchVars>>
    /\ UNCHANGED <<impl, framingVars, sessionVars, watcherVars>>

\* _send_command, line 62: sock.send raises; nothing catches it and the
\* calling thread ends.
SockSendFails(t) ==
    /\ pc[t] = "send"
    /\ pc' = [pc EXCEPT ![t] = "dead"]
    /\ payload' = [payload EXCEPT ![t] = <<>>]
    /\ UNCHANGED <<linkVars, orchVars>>
    /\ UNCHANGED <<impl, stream, framingVars, sessionVars, watcherVars>>

InitSend ==
    /\ impl = "combotcha"
    /\ pc = [t \in Threads |-> "idle"]
    /\ payload = [t \in Threads |-> <<>>]
    /\ stream = <<>>
    /\ InitFramingIdle /\ InitWatcherIdle /\ InitOrchIdle
    /\ phase = "Ready" /\ fed = <<>> /\ sent = <<>>
    /\ nickname = ConfiguredNick /\ connection = "None"

NextSend ==
    \/ \E t \in Threads : EnterSend(t)
    \/ \E t \in Threads : \E k \in 1..Len(payload[t]) : SockSend(t, k)
    \/ \E t \in Threads : SockSendFails(t)

SpecSend == InitSend /\ [][NextSend]_vars

(***************************************************************************)
(* Repository watchers.  A commit is its hexsha, a sequence of HashLen     *)
(* hex digits; a branch is the sequence of its commits, oldest first, and  *)
(* iter_commits walks it from the last element (the tip) backwards.        *)
(***************************************************************************)
HexDigits == {"a", "b"}
Hashes == [1..HashLen -> HexDigits]
NoneSha == <<>>

Tip(history) == history[Len(history)]

\* 1-based place of a commit in a branch, 0 when it is not there.
Pos(history, commit) ==
    IF \E i \in 1..Len(history) : history[i] = commit
    THEN CHOOSE i \in 1..Len(history) : history[i] = commit
    ELSE 0

\* str.startswith
StartsWith(hexsha, prefix) == IsPrefix(prefix, hexsha)

\* combotsha.py lines 112-116: walk from the i-th commit towards the root,
\* stop at the marker commit (compared by identity); newest first.
RECURSIVE ShaWalk(_, _, _)
ShaWalk(history, i, last_seen) ==
    IF i = 0 THEN <<>>
    ELSE IF history[i] = last_seen THEN <<>>
    ELSE <<history[i]>> \o ShaWalk(history, i - 1, last_seen)

\* combotcha.py lines 37-40: the same walk, stopping at the first commit
\* whose hexsha starts with the remembered string; newest first.
RECURSIVE ChaWalk(_, _, _)
ChaWalk(history, i, sha) ==
    IF i = 0 THEN <<>>
    ELSE IF StartsWith(history[i], sha) THEN <<>>
    ELSE <<history[i]>> \o ChaWalk(history, i - 1, sha)

\* A marker update that takes the oldest of the new commits.
NextMarker_Oldest(new_commits, last_seen) ==
    IF Len(new_commits) > 0 THEN new_commits[Len(new_commits)] ELSE last_seen

\* `if len(new_commits) > 0: self._last_seen_commit = new_commits[0]`
NextMarker(new_commits, last_seen) ==
    IF Len(new_commits) > 0 THEN new_commits[1] ELSE last_seen

\* A baseline that takes the root commit of the branch.
BaselineMarker_Root(history) == history[1]

\* `next(self._commit_iter)`: the first commit iter_commits yields, the tip.
BaselineMarker(history) == Tip(history)

\* A return that hands out the walk as it is, newest first.
ShaResult_WalkOrder(new_commits) == new_commits

\* `return list(reversed(new_commits))`
ShaResult(new_commits) == Reverse(new_commits)

\* `return new_commits` (combotcha.py line 43): the walk order as it is.
ChaResult(new_commits) == new_commits

NoCall == [kind |-> "none", commits |-> <<>>, before |-> NoneSha, fetch |-> "skipped"]

Returned(list, before, fetch) ==
    [kind |-> "list", commits |-> list, before |-> before, fetch |-> fetch]

Raised(before) ==
    [kind |-> "raised", commits |-> <<>>, before |-> before, fetch |-> "failed"]

\* Someone pushes a new commit to the tracked branch (a fast-forward).
Push(hexsha) ==
    /\ Len(upstream) < MaxCommits
    /\ hexsha \notin Range(upstream)
    /\ upstream' = Append(upstream, hexsha)
    /\ UNCHANGED <<linkVars, orchVars>>
    /\ UNCHANGED <<impl, reported, clone, marker, last_seen_commit_sha, baseline, ret, alive,
                   framingVars, sessionVars, sendVars>>

\* _Repository.get_new_commits (combotsha.py), the fetch failing:
\* the except clause logs and returns [].
ShaGetNewCommitsFetchFails ==
    /\ impl = "combotsha"
    /\ alive
    /\ ret' = Returned(<<>>, marker, "failed")
    /\ reported' = reported
    /\ UNCHANGED <<linkVars, orchVars>>
    /\ UNCHANGED <<impl, upstream, clone, marker, last_seen_commit_sha, baseline, alive,
                   framingVars, sessionVars, sendVars>>

\* _Repository.get_new_commits (combotsha.py), the fetch succeeding.
ShaGetNewCommits ==
    /\ impl = "combotsha"
    /\ alive
    /\ clone' = upstream
    /\ LET new_commits == ShaWalk(upstream, Len(upstream), marker)
       IN  /\ marker' = NextMarker(new_commits, marker)
           /\ ret' = Returned(ShaResult(new_commits), marker, "ok")
           /\ reported' = reported \o ShaResult(new_commits)
    /\ UNCHANGED <<linkVars, orchVars>>
    /\ UNCHANGED <<impl, upstream, last_seen_commit_sha, baseline, alive,
                   framingVars, sessionVars, sendVars>>

\* Repository.get_new_commits (combotcha.py), first call without a starting
\* sha: lines 30-33 remember the tip of the clone and return [] unfetched.
ChaGetNewCommitsFirst ==
    /\ impl = "combotcha"
    /\ alive
    /\ marker = NoneSha
    /\ marker' = Tip(clone)
    /\ ret' = Returned(<<>>, marker, "skipped")
    /\ reported' = reported
    /\ UNCHANGED <<linkVars, orchVars>>
    /\ UNCHANGED <<impl, upstream, clone, last_seen_commit_sha, baseline, alive,
                   framingVars, sessionVars, sendVars>>

\* Repository.get_new_commits (combotcha.py), line 35 raising: fetch() is
\* not guarded, GitCommandError leaves the call and ends the main loop.
ChaGetNewCommitsFetchFails ==
    /\ impl = "combotcha"
    /\ alive
    /\ marker # NoneSha
    /\ ret' = Raised(marker)
    /\ reported' = reported
    /\ alive' = FALSE
    /\ UNCHANGED <<linkVars, orchVars>>
    /\ UNCHANGED <<impl, upstream, clone, marker, last_seen_commit_sha, baseline,
                   framingVars, sessionVars, sendVars>>

\* Repository.get_new_commits (combotcha.py), lines 35-43, the fetch succeeding.
ChaGetNewCommits ==
    /\ impl = "combotcha"
    /\ alive
    /\ marker # NoneSha
    /\ clone' = upstream
    /\ LET new_commits == ChaWalk(upstream, Len(upstream), marker)
       IN  /\ marker' = NextMarker(new_commits, marker)
           /\ ret' = Returned(ChaResult(new_commits), marker, "ok")
           /\ reported' = reported \o ChaResult(new_commits)
    /\ UNCHANGED <<linkVars, orchVars>>
    /\ UNCHANGED <<impl, upstream, last_seen_commit_sha, baseline, alive,
                   framingVars, sessionVars, sendVars>>

\* The prefixes of a hexsha a configuration may give (at least one digit).
Abbreviations(hexsha) == {SubSeq(hexsha, 1, n) : n \in 1..Len(hexsha)}

\* The starting identities a configuration may give for a clone.
\* _Repository resolves the argument to a commit (repo.commit); Repository
\* keeps the string as given, which may be an abbreviation.
StartChoices(program, history) ==
    IF program = "combotsha"
    THEN {NoneSha} \cup Range(history)
    ELSE {NoneSha} \cup UNION {Abbreviations(c) : c \in Range(history)}

\* The constructors: clone the remote, then set the marker.
InitWatcher ==
    /\ impl \in {"combotcha", "combotsha"}
    /\ upstream \in {h \in UNION {[1..n -> Hashes] : n \in 1..2} :
                        \A i, j \in 1..Len(h) : h[i] = h[j] => i = j}
    /\ clone = upstream
    /\ baseline = upstream
    /\ last_seen_commit_sha \in StartChoices(impl, clone)
    /\ marker = IF impl = "combotsha" /\ last_seen_commit_sha = NoneSha
                THEN BaselineMarker(clone)
                ELSE last_seen_commit_sha
    /\ ret = NoCall
    /\ alive = TRUE
    /\ reported = <<>>
    /\ InitFramingIdle /\ InitSessionIdle /\ InitSendIdle /\ InitOrchIdle

NextWatcher ==
    \/ \E hexsha \in Hashes : Push(hexsha)
    \/ ShaGetNewCommitsFetchFails
    \/ ShaGetNewCommits
    \/ ChaGetNewCommitsFirst
    \/ ChaGetNewCommitsFetchFails
    \/ ChaGetNewCommits

SpecWatcher == InitWatcher /\ [][NextWatcher]_vars

(***************************************************************************)
(* The orchestrator: the main loop of both programs.  Each pass polls the  *)
(* repositories in configuration order and announces what a poll returned  *)
(* before it polls the next one, then sleeps 10 seconds.  A poll is        *)
(* get_new_commits; here its walk finds n commits, numbered by age (1 is   *)
(* the oldest new commit), and the program's own return statement orders   *)
(* them.  The bot thread of combotsha.py receives the welcome at any time; *)
(* SIGINT arrives at any time.                                             *)
(***************************************************************************)
Repos == <<"r1", "r2">>

\* What iter_commits yields down to the marker when n commits are new.
Walk(n) == [i \in 1..n |-> ToString(n + 1 - i)]

\* What get_new_commits hands to the main loop.
NewCommits(n) ==
    IF impl = "combotsha" THEN ShaResult(Walk(n)) ELSE ChaResult(Walk(n))

\* '{} ({})'.format(repo.name, len(new_commits))
SummaryText(name, n) == <<name, " ", "(", ToString(n), ")">>

\* The text announcing one commit: the format of combotcha.py line 178 and
\* f'\x02{repo.name}\x0f: {commit_str}' of msg_commit.  The formatted
\* fields of a commit are one token pair here.
CommitText(name, commit) ==
    IF impl = "combotsha" THEN <<name, ":", " ", "commit", commit>>
    ELSE <<"commit", commit>>

\* A call of msg_channel that wrote nothing, and a sleep(1), as log entries.
Dropped(msg) == <<"dropped">> \o msg
Sleep1 == <<"sleep", "1">>

\* A threshold that already limits a batch of five.
RateLimit_FromFive(new_commits) == Len(new_commits) >= RateLimitThreshold

\* `len(new_commits) > 5`
RateLimit(new_commits) == Len(new_commits) > RateLimitThreshold

\* Where the main thread goes when it is done with repository cur.
AfterRepo == IF cur < Len(Repos) THEN "poll" ELSE "sleep"

\* Leaving the loop over new_commits: on to the next repository.
NextRepo == IF cur < Len(Repos) THEN cur + 1 ELSE cur

\* `new_commits = repo.get_new_commits()` and the test for an empty list.
OrchPoll(n) ==
    /\ opc = "poll"
    /\ batch' = [repo |-> Repos[cur], commits |-> NewCommits(n)]
    /\ todo' = batch'.commits
    /\ log' = <<>>
    /\ IF todo' = <<>>
       THEN /\ opc' = AfterRepo
            /\ cur' = NextRepo
       ELSE /\ opc' = IF impl = "combotcha" THEN "summary" ELSE "send"
            /\ cur' = cur
    /\ UNCHANGED <<impl, linkVars, framingVars, sessionVars, sendVars, watcherVars>>

\* combotcha.py line 176: the summary message of a non-empty batch.
OrchSummary ==
    /\ opc = "summary"
    /\ log' = Append(log, MessageChannel(SummaryText(Repos[cur], Len(batch.commits))))
    /\ opc' = "send"
    /\ UNCHANGED <<cur, todo, batch>>
    /\ UNCHANGED <<impl, linkVars, framingVars, sessionVars, sendVars, watcherVars>>

\* One turn of `for commit in new_commits`: message_channel in combotcha.py,
\* msg_commit in combotsha.py, which sleeps next when rate_limit is set.
OrchSendCommit ==
    /\ opc = "send"
    /\ todo # <<>>
    /\ LET text   == CommitText(Repos[cur], Head(todo))
           writes == IF impl = "combotsha" THEN MsgChannel(connection, text)
                     ELSE <<MessageChannel(text)>>
       IN  log' = log \o (IF writes = <<>> THEN <<Dropped(text)>> ELSE writes)
    /\ todo' = Tail(todo)
    /\ IF impl = "combotsha" /\ RateLimit(batch.commits)
       THEN opc' = "delay" /\ cur' = cur
       ELSE IF todo' = <<>>
       THEN opc' = AfterRepo /\ cur' = NextRepo
       ELSE opc' = "send" /\ cur' = cur
    /\ batch' = batch
    /\ UNCHANGED <<impl, linkVars, framingVars, sessionVars, sendVars, watcherVars>>

\* `if rate_limit: sleep(1)`, the last statement of the loop body.
OrchDelay ==
    /\ opc = "delay"
    /\ log' = Append(log, Sleep1)
    /\ IF todo = <<>>
       THEN opc' = AfterRepo /\ cur' = NextRepo
       ELSE opc' = "send" /\ cur' = cur
    /\ UNCHANGED <<todo, batch>>
    /\ UNCHANGED <<impl, linkVars, framingVars, sessionVars, sendVars, watcherVars>>

\* sleep(10) at the end of a pass; the next pass starts at the first
\* repository.
OrchSleep ==
    /\ opc = "sleep"
    /\ opc' = "poll"
    /\ cur' = 1
    /\ UNCHANGED <<todo, batch, log>>
    /\ UNCHANGED <<impl, linkVars, framingVars, sessionVars, sendVars, watcherVars>>

\* The state when the main loop is entered: combotcha.py has signed in,
\* combotsha.py has just started the bot thread.
InitOrch ==
    /\ impl \in {"combotcha", "combotsha"}
    /\ phase = IF impl = "combotcha" THEN "Ready" ELSE "start"
    /\ fed = <<>>
    /\ sent = <<>>
    /\ nickname = ConfiguredNick
    /\ connection = "None"
    /\ sock_open = TRUE /\ quit_calls = 0
    /\ opc = "poll" /\ cur = 1 /\ todo = <<>> /\ log = <<>>
    /\ batch = [repo |-> "", commits |-> <<>>]
    /\ InitFramingIdle /\ InitSendIdle /\ InitWatcherIdle

NextOrch ==
    \/ \E n \in 0..MaxBatch : OrchPoll(n)
    \/ OrchSummary
    \/ OrchSendCommit
    \/ OrchDelay
    \/ OrchSleep
    \/ BotOnWelcome
    \/ BotDisconnectFromServer
    \/ SessionQuit

SpecOrch == InitOrch /\ [][NextOrch]_vars

(***************************************************************************)
(* C1. Framing round trip: whatever the chunking of the byte stream, the   *)
(* values _receive has returned so far are the first messages the server   *)
(* sent, in order and unchanged (none lost, duplicated, merged or split),  *)
(* no call raises, and once the whole stream is delivered and no frame is  *)
(* left in the buffer every message has been returned.                     *)
(***************************************************************************)
C1_FramingRoundTrip ==
    /\ ~rx_raised
    /\ IsPrefix(received, msgs)
    /\ (wire = <<>> /\ ~HasCRLF(reception_buffer)) => received = msgs

\* A message was returned, a second one is in flight and its delimiter
\* straddles two reads: the CR is buffered, the LF not yet delivered.
C1_Witness ==
    /\ Len(msgs) = 2 /\ Len(received) = 1
    /\ reception_buffer = Encode(msgs[2]) \o <<CR>>
    /\ wire = <<LF>>

\* Two frames arrived in one read and both messages came back.
C1_WitnessDone ==
    /\ Len(msgs) = 2 /\ received = msgs /\ wire = <<>>

(***************************************************************************)
(* Vocabulary of the claims about the handshake.                           *)
(***************************************************************************)
\* The line the step from the current state to the next one consumed.
LastFed == fed'[Len(fed')]
Consumed == Len(fed') = Len(fed) + 1

IsIdentLine(line) == Contains(line, "No Ident response")
\* A numeric reply line: sign_in looks at the code only when the line is
\* not an ident notice, which it tests first.
IsReplyLine(line, code) == ~IsIdentLine(line) /\ GetPayloadStatus(line) = code

ExpectNick(nick) == <<"NICK", " ">> \o nick \o <<"\r\n">>
ExpectUser(nick) == <<"USER", " ">> \o nick \o <<" ", "*", " ", "*", " ", ":">>
                       \o nick \o <<"\r\n">>
ExpectJoin == <<"JOIN", " ", "#chan", "\r\n">>
ExpectQuit == <<"QUIT", " ", ":", "Bye-bye-bye-bye-bye-bye-bye!!", "\r\n">>

\* The step that consumes the last line of the canned sequence.
C3_Canned ==
    (/\ impl = "combotcha"
     /\ phase = "sign_in"
     /\ Consumed
     /\ Len(fed') = 3
     /\ IsIdentLine(fed'[1])
     /\ IsReplyLine(fed'[2], 376)
     /\ IsReplyLine(fed'[3], 366))
    => /\ phase' = "Ready"
       /\ sent' = <<ExpectNick(ConfiguredNick), ExpectUser(ConfiguredNick), ExpectJoin>>

C3_PerLine ==
    (impl = "combotcha" /\ phase = "sign_in" /\ Consumed)
    => /\ IsIdentLine(LastFed)
          => sent' = sent \o <<ExpectNick(nickname), ExpectUser(nickname)>>
       /\ IsReplyLine(LastFed, 376)
          => sent' = sent \o <<ExpectJoin>>

(***************************************************************************)
(* C3. Handshake determinism: fed an ident notice, then a 376 line, then a *)
(* 366 line, sign_in has returned (Ready) having sent exactly NICK, USER,  *)
(* JOIN and nothing else; and every step of sign_in on an ident notice     *)
(* sends exactly one NICK+USER pair, every step on a 376 line exactly one  *)
(* JOIN.                                                                   *)
(***************************************************************************)
C3_HandshakeDeterminism == [][C3_Canned /\ C3_PerLine]_vars

\* sign_in returned on exactly the canned sequence.
C3_Witness ==
    /\ impl = "combotcha"
    /\ fed = <<IdentLine, MotdEndLine, NamesEndLine>>
    /\ phase = "Ready"
    /\ Len(sent) = 3

C4_Step ==
    (impl = "combotcha" /\ Consumed /\ Contains(LastFed, "PING"))
    => /\ Len(sent') = Len(sent) + 1
       /\ SubSeq(sent', 1, Len(sent)) = sent
       /\ sent'[Len(sent')][1] = "PONG"
       /\ phase' = phase

(***************************************************************************)
(* C4. Keepalive in every connected state: every line containing PING that *)
(* the session consumes, during sign_in as well as in run, is answered by  *)
(* exactly one PONG and leaves the handshake state as it was.              *)
(***************************************************************************)
C4_PongInEveryState == [][C4_Step]_vars

C5_SignIn ==
    (impl = "combotcha" /\ phase = "sign_in" /\ Consumed /\ IsReplyLine(LastFed, 433))
    => /\ sent' = sent \o <<ExpectQuit>>
       /\ phase' = "NicknameInUse"

C5_NothingAfter ==
    (phase = "NicknameInUse") => (sent' = sent /\ phase' = phase)

C5_Bot ==
    (impl = "combotsha" /\ Consumed /\ IsReplyLine(LastFed, 433))
    => /\ sent' = Append(sent, <<"NICK", " ">> \o nickname \o <<"_", "\r\n">>)
       /\ phase' = phase

(***************************************************************************)
(* C5. Nickname collision: a 433 line met by sign_in sends the farewell    *)
(* QUIT and raises NicknameInUse, after which nothing more is sent;        *)
(* on_nicknameinuse sends exactly one NICK for the current nickname with   *)
(* one '_' appended and the bot goes on.                                   *)
(***************************************************************************)
C5_NicknameCollision ==
    [][C5_SignIn /\ C5_NothingAfter /\ C5_Bot]_vars

\* sign_in met a 433 line after identifying: QUIT is the last thing sent.
C5_Witness ==
    /\ impl = "combotcha"
    /\ phase = "NicknameInUse"
    /\ Len(sent) = 3
    /\ sent[3] = ExpectQuit

\* The bot renamed itself once.
C5_WitnessBot ==
    /\ impl = "combotsha"
    /\ sent = <<<<"NICK", " ", "bot", "_", "\r\n">>>>

WholeMessages == Outbound("main") \cup Outbound("irc")

RECURSIVE IsConcatOfWhole(_)
IsConcatOfWhole(s) ==
    \/ s = <<>>
    \/ \E m \in WholeMessages :
          /\ IsPrefix(m, s)
          /\ IsConcatOfWhole(SubSeq(s, Len(m) + 1, Len(s)))

InWrite == {t \in Threads : pc[t] = "send"}

(***************************************************************************)
(* C2. Outbound send atomicity: under every interleaving of the two        *)
(* sending threads the bytes on the stream are a concatenation of whole    *)
(* "<command> <payload>\r\n" messages, and the write is exclusive: at most *)
(* one thread is inside it at a time.                                      *)
(***************************************************************************)
C2_SendAtomicity ==
    /\ Cardinality(InWrite) <= 1
    /\ IsConcatOfWhole(stream)

\* The stream alone: whole messages only.
C2_StreamWhole == IsConcatOfWhole(stream)

(***************************************************************************)
(* Vocabulary of the claims about the watchers.                            *)
(***************************************************************************)
\* The place of the marker commit in a branch: the newest commit the
\* remembered identity designates (0 when there is none).
MarkerPos(history, last_seen) ==
    LET hits == {i \in 1..Len(history) :
                    last_seen # NoneSha /\ StartsWith(history[i], last_seen)}
    IN  IF hits = {} THEN 0 ELSE CHOOSE i \in hits : \A k \in hits : k <= i

\* The commits of a branch after its n-th, as a set.
After(history, n) == {history[i] : i \in (n + 1)..Len(history)}

\* The last call returned a non-empty batch.
GotBatch == ret.kind = "list" /\ ret.commits # <<>>

(***************************************************************************)
(* C6. Chronological batch order: every non-empty list get_new_commits     *)
(* returns is oldest first: its first element is the commit right after    *)
(* the previous marker, its last element the branch tip, in both programs. *)
(***************************************************************************)
C6_OldestFirst ==
    GotBatch =>
        LET n == Len(ret.commits)
        IN  /\ \A i \in 1..(n - 1) :
                  Pos(clone, ret.commits[i]) < Pos(clone, ret.commits[i + 1])
            /\ Pos(clone, ret.commits[1]) = MarkerPos(clone, ret.before) + 1
            /\ ret.commits[n] = Tip(clone)

\* The part of C6 that is about _Repository alone.
C6_ShaOldestFirst == (impl = "combotsha") => C6_OldestFirst

C7_Step ==
    (impl = "combotsha") =>
        /\ Pos(upstream', marker') >= Pos(upstream, marker)
        /\ (marker' # marker) =>
              /\ ret'.kind = "list"
              /\ ret'.commits # <<>>
              /\ ret'.before = marker
              /\ marker' = ret'.commits[Len(ret'.commits)]
              /\ marker' = Tip(clone')
              /\ Pos(upstream', marker') > Pos(upstream, marker)
        /\ (ret' # ret /\ ret'.commits # <<>>) => marker' = Tip(clone')

(***************************************************************************)
(* C7. Marker monotonicity of _Repository: no step makes the marker an     *)
(* older commit; it changes only in a poll returning a non-empty batch,    *)
(* and then it is the newest commit of the batch, the tip just walked.     *)
(***************************************************************************)
C7_MarkerMonotonic == [][C7_Step]_vars

\* A poll returned two commits at once and moved the marker to the tip.
C7_Witness ==
    /\ impl = "combotsha"
    /\ GotBatch /\ Len(ret.commits) = 2
    /\ marker = Tip(upstream)
    /\ ret.before # marker

NoNewUpstream ==
    /\ clone = upstream
    /\ MarkerPos(upstream, marker) = Len(upstream)

C8_Step ==
    (ret' # ret /\ NoNewUpstream) =>
        /\ ret'.kind = "list"
        /\ ret'.commits = <<>>
        /\ UNCHANGED <<marker, clone, upstream, alive>>

(***************************************************************************)
(* C8. No-op on empty delta: a call made while the branch tip is the       *)
(* marker commit returns the empty list and changes no field of the        *)
(* watcher, in both programs.                                              *)
(***************************************************************************)
C8_NoOpOnEmptyDelta == [][C8_Step]_vars

\* C8 in the calls whose fetch does not raise.
C8_UnlessFetchRaises == [][(ret'.kind # "raised") => C8_Step]_vars

(***************************************************************************)
(* C9. Fetch failure is recoverable: a call whose fetch fails raises       *)
(* nothing, returns the empty list and leaves the marker where it was; a   *)
(* call whose fetch succeeds returns every commit upstream had after the   *)
(* marker, in both programs.                                               *)
(***************************************************************************)
C9_FetchFailureRecoverable ==
    /\ (ret.fetch = "failed") =>
          /\ ret.kind = "list"
          /\ ret.commits = <<>>
          /\ marker = ret.before
          /\ alive
    /\ (ret.kind = "list" /\ ret.fetch = "ok") =>
          Range(ret.commits) = After(clone, MarkerPos(clone, ret.before))

\* The part of C9 that is about _Repository alone.
C9_ShaRecoverable == (impl = "combotsha") => C9_FetchFailureRecoverable

NeverReturnsBaseline ==
    (last_seen_commit_sha = NoneSha /\ ret.kind = "list")
    => Range(ret.commits) \cap Range(baseline) = {}

C10_FirstCall ==
    (last_seen_commit_sha = NoneSha /\ ret.kind = "none" /\ ret'.kind # "none")
    => (ret'.kind = "list" /\ ret'.commits = <<>>)

(***************************************************************************)
(* C10. Baseline.  As claimed: without a starting identity the first call  *)
(* returns zero commits and no commit of the history at creation is ever   *)
(* returned.                                                               *)
(***************************************************************************)
C10_FirstPollEmpty == [](NeverReturnsBaseline) /\ [][C10_FirstCall]_vars

(***************************************************************************)
(* C10, amended.  Without a starting identity the marker a watcher adopts  *)
(* is the tip of the branch as it was cloned; every list it returns holds  *)
(* only commits pushed after the watcher was created (so it is empty while *)
(* nothing was pushed), and no commit of the history at creation is ever   *)
(* returned.                                                               *)
(***************************************************************************)
C10_Baseline ==
    (last_seen_commit_sha = NoneSha) =>
        /\ (ret.kind = "none" /\ marker # NoneSha) => marker = Tip(baseline)
        /\ (marker # NoneSha) => Pos(upstream, marker) >= Len(baseline)
        /\ NeverReturnsBaseline
        /\ (ret.kind = "list" /\ upstream = baseline) => ret.commits = <<>>
        /\ (ret.kind = "list") => Range(ret.commits) \subseteq After(upstream, Len(baseline))

\* A watcher created on a two-commit history returned a batch.
C10_Witness ==
    /\ last_seen_commit_sha = NoneSha
    /\ Len(baseline) = 2
    /\ GotBatch


(***************************************************************************)
(* Vocabulary of the claims about the reception buffer.                    *)
(***************************************************************************)
\* The step is a return of _receive / a read of _receive.
ReturnedMessage == Len(received') = Len(received) + 1
ReadSocket == wire' # wire

(***************************************************************************)
(* C16, as stated. Reception-buffer invariant: every time _receive returns *)
(* a message, the reception buffer contains no CRLF delimiter (no complete *)
(* frame), for every chunking of the input, a single read that delivers    *)
(* several complete frames included.                                       *)
(***************************************************************************)
C16_NoFrameLeft ==
    [][ReturnedMessage => ~HasCRLF(reception_buffer')]_vars

(***************************************************************************)
(* C16, amended. Every time _receive returns a message the reception       *)
(* buffer holds exactly the bytes received after that message's delimiter: *)
(* the returned values, framed, then the buffer, then the bytes not yet    *)
(* read make up the stream the server wrote, so the frames a read          *)
(* delivered beyond the first stay buffered in order; and _receive reads   *)
(* from the socket only while the buffer holds no complete frame.          *)
(***************************************************************************)
C16_BufferIsUnreturned ==
    /\ [](FrameAll(received) \o reception_buffer \o wire = FrameAll(msgs))
    /\ [][ReadSocket => ~HasCRLF(reception_buffer)]_vars

\* One read delivered two complete frames: the first message came back and
\* the second frame, delimiter included, is still in the buffer.
C16_Witness ==
    /\ Len(msgs) = 2 /\ Len(received) = 1 /\ wire = <<>>
    /\ reception_buffer = Frame(msgs[2])


(***************************************************************************)
(* C17. Handshake ordering in IRCSession.sign_in: for every sequence of    *)
(* inbound lines sign_in has returned (Ready) only if a 376 line was       *)
(* received, the JOIN for the configured channel was sent and a 366 line   *)
(* came after that 376 line; a 366 line received before any 376 line does  *)
(* not end the handshake.                                                  *)
(***************************************************************************)
C17_HandshakeOrdering ==
    (impl = "combotcha" /\ phase \in {"Ready", "IndexError"}) =>
        /\ ExpectJoin \in Range(sent)
        /\ \E i, j \in 1..Len(fed) :
              /\ i < j
              /\ IsReplyLine(fed[i], 376)
              /\ IsReplyLine(fed[j], 366)

(***************************************************************************)
(* Vocabulary of the claim about the keepalive reply.                      *)
(***************************************************************************)
\* The whole text after the first colon of a line that has one.
AfterFirstColon(line) ==
    LET cs    == ColonsOf(line)
        first == CHOOSE i \in cs : \A k \in cs : i <= k
    IN  SubSeq(line, first + 1, Len(line))

ExpectPong(line) == <<"PONG", " ", ":">> \o AfterFirstColon(line) \o <<"\r\n">>

(***************************************************************************)
(* C18. Keepalive token: for every inbound line containing PING, whatever  *)
(* its shape, the receive loop replies with exactly "PONG :<t>\r\n" where  *)
(* <t> is the whole text after the first colon of the line, and handling   *)
(* the line (a line with no colon included) raises no exception that ends  *)
(* the receive loop.                                                       *)
(***************************************************************************)
C18_KeepaliveToken ==
    [][(phase = "Ready" /\ Consumed /\ Contains(LastFed, "PING")) =>
          /\ phase' = "Ready"
          /\ ColonsOf(LastFed) # {} => sent' = Append(sent, ExpectPong(LastFed))
      ]_vars


(***************************************************************************)
(* Vocabulary of the claim about exactly-once reporting.                   *)
(***************************************************************************)
\* Where the watcher's first marker is in the branch: the starting commit
\* it was given, or the tip of the branch as cloned.
BaselinePos ==
    IF last_seen_commit_sha = NoneSha THEN Len(baseline)
    ELSE MarkerPos(baseline, last_seen_commit_sha)

(***************************************************************************)
(* C19. Exactly-once reporting by _Repository: over every sequence of      *)
(* upstream appends, failed fetches and polls, the concatenation of all    *)
(* returned batches is the upstream commit order from right after the      *)
(* baseline up to the marker (no commit skipped, none returned twice), and *)
(* after a poll whose fetch succeeded the marker is the fetched tip, so    *)
(* every commit fetched so far has been returned by exactly one call.      *)
(***************************************************************************)
C19_ExactlyOnce ==
    impl = "combotsha" =>
        /\ reported = SubSeq(upstream, BaselinePos + 1, MarkerPos(upstream, marker))
        /\ ret.fetch = "ok" => marker = Tip(clone)

\* Two commits were pushed after the baseline and came back in two polls,
\* one each.
C19_Witness ==
    /\ impl = "combotsha"
    /\ Len(reported) = 2
    /\ ret.fetch = "ok" /\ Len(ret.commits) = 1

\* Two commits came back in one batch after a poll whose fetch had failed.
C19_WitnessBatch ==
    /\ impl = "combotsha"
    /\ Len(upstream) = BaselinePos + 2
    /\ ret.fetch = "ok" /\ Len(ret.commits) = 2


(***************************************************************************)
(* Vocabulary of the claims about channel sends and disconnecting.         *)
(***************************************************************************)
IsPrivmsg(cmd) == cmd[1] = "PRIVMSG"
IsFarewell(cmd) == cmd[1] = "QUIT"

\* The connection has reached Ready: sign_in has returned (combotcha.py);
\* the end-of-names reply 366 has followed the welcome (combotsha.py).
ReachedReady ==
    IF impl = "combotcha"
    THEN phase \in {"Ready", "IndexError"}
    ELSE \E i, j \in 1..Len(fed) :
            i < j /\ fed[i] = WelcomeLine /\ IsReplyLine(fed[j], 366)

(***************************************************************************)
(* C13. Channel sends before Ready are dropped: a call of msg_channel or   *)
(* message_channel made before the connection has reached Ready (the join  *)
(* completed with the end-of-names reply 366) writes nothing; in every run *)
(* no PRIVMSG has been written unless Ready was reached.                   *)
(***************************************************************************)
C13_NoPrivmsgBeforeReady ==
    (\E i \in 1..Len(sent) : IsPrivmsg(sent[i])) => ReachedReady

(***************************************************************************)
(* C14. Disconnect is idempotent and always safe: once the disconnect      *)
(* operation (disconnect_from_server, quit) has been called, in whatever   *)
(* handshake state and however many times, exactly one farewell command    *)
(* has been written and the stream is closed.                              *)
(***************************************************************************)
C14_DisconnectIdempotent ==
    quit_calls > 0 =>
        /\ Cardinality({i \in 1..Len(sent) : IsFarewell(sent[i])}) = 1
        /\ ~sock_open


(***************************************************************************)
(* Vocabulary of the claims about the orchestrator.                        *)
(***************************************************************************)
\* The main loop is done with the batch of the last poll.
BatchDone == batch.commits # <<>> /\ todo = <<>> /\ opc \in {"poll", "sleep"}

\* The channel messages written since the last poll, in order.
Written == SelectSeq(log, IsPrivmsg)

IsDelay(entry) == entry = Sleep1
\* A per-commit send: a call for a commit, written or not.
IsCommitSend(entry) == Contains(entry, "commit")

ExpectSummary(name, n) ==
    <<"PRIVMSG", " ", "#chan", " ", ":", name, " ", "(", ToString(n), ")", "\r\n">>

ExpectCommit(name, commit) ==
    <<"PRIVMSG", " ", "#chan", " ", ":">> \o CommitText(name, commit) \o <<"\r\n">>

\* The announcement of n commits of a repository, oldest first.
ExpectCommits(name, n) == [i \in 1..n |-> ExpectCommit(name, ToString(i))]

(***************************************************************************)
(* C11. Per-repository announcement sequence: when the orchestrator is     *)
(* done with a repository whose poll returned n > 0 commits it has written *)
(* exactly one summary message "<name> (<n>)" and then exactly one message *)
(* per commit, oldest first, and nothing else; after a poll that returned  *)
(* an empty list it has written no message.                                *)
(***************************************************************************)
C11_AnnouncementSequence ==
    /\ BatchDone =>
          Written = <<ExpectSummary(batch.repo, Len(batch.commits))>>
                        \o ExpectCommits(batch.repo, Len(batch.commits))
    /\ batch.commits = <<>> => log = <<>>

(***************************************************************************)
(* C12, as stated. Rate-limit threshold in check_repo_new_commits: a batch *)
(* of n > 5 commits has produced exactly n - 1 delays of 1 second when it  *)
(* is done, each between two consecutive per-commit sends, and a batch of  *)
(* n <= 5 commits has produced none.                                       *)
(***************************************************************************)
C12_RateLimitDelays ==
    (impl = "combotsha" /\ BatchDone) =>
        /\ Cardinality({i \in 1..Len(log) : IsDelay(log[i])})
              = (IF Len(batch.commits) > 5 THEN Len(batch.commits) - 1 ELSE 0)
        /\ \A i \in 1..Len(log) :
              IsDelay(log[i]) => /\ 1 < i /\ i < Len(log)
                                 /\ IsCommitSend(log[i - 1])
                                 /\ IsCommitSend(log[i + 1])

(***************************************************************************)
(* C12, amended. A batch of n > 5 commits has produced exactly n delays of *)
(* 1 second when it is done, one right after each per-commit send, the     *)
(* last send included (a batch of exactly 6 produces exactly 6), and a     *)
(* batch of n <= 5 commits has produced none.                              *)
(***************************************************************************)
C12_DelayAfterEachSend ==
    (impl = "combotsha" /\ BatchDone) =>
        /\ Cardinality({i \in 1..Len(log) : IsDelay(log[i])})
              = (IF Len(batch.commits) > 5 THEN Len(batch.commits) ELSE 0)
        /\ \A i \in 1..Len(log) :
              IsDelay(log[i]) => (1 < i /\ IsCommitSend(log[i - 1]))
        /\ Len(batch.commits) > 5 =>
              \A i \in 1..Len(log) :
                 IsCommitSend(log[i]) => (i < Len(log) /\ IsDelay(log[i + 1]))

\* A batch of exactly six commits is done: six sends, six delays, the last
\* entry a delay.
C12_Witness ==
    /\ impl = "combotsha" /\ BatchDone
    /\ Len(batch.commits) = 6
    /\ Len(log) = 12 /\ IsDelay(log[12])

\* A batch of exactly five commits is done with no delay at all.
C12_WitnessFive ==
    /\ impl = "combotsha" /\ BatchDone
    /\ Len(batch.commits) = 5
    /\ Len(log) = 5

(***************************************************************************)
(* C15. Graceful shutdown: once the interrupt handler has run, at whatever *)
(* point of the main loop the signal arrived, the farewell command has     *)
(* been written and the stream is closed.                                  *)
(***************************************************************************)
C15_GracefulShutdown ==
    opc = "exited" =>
        /\ \E i \in 1..Len(sent) : IsFarewell(sent[i])
        /\ ~sock_open

(***************************************************************************)
(* C20. No announcement is lost between watcher and channel (combotsha.py):*)
(* when the main loop is done with a batch get_new_commits returned, it    *)
(* has written exactly one PRIVMSG for every commit of the batch, whatever *)
(* the state of the IRC connection when the poll was made.                 *)
(***************************************************************************)
C20_NoAnnouncementLost ==
    (impl = "combotsha" /\ BatchDone) =>
        /\ Len(Written) = Len(batch.commits)
        /\ \A i \in 1..Len(batch.commits) :
              Written[i] = ExpectCommit(batch.repo, batch.commits[i])

====
